---- MODULE Spec2Model ----
(***************************************************************************)
(* Model of the 48-bit timestamp generator (src/unnamed/part_001):         *)
(* the monotonic clock step on lastGeneratedTimestamp, the two encoders    *)
(* (generateTimestamp48, generateTimestamp48Fast), generateBatch and the   *)
(* decoder decodeTimestamp48.                                              *)
(*                                                                         *)
(* Numbers.  A JavaScript Number holding an integer v (|v| < 2^53) is the   *)
(* record [hi |-> h, lo |-> l] with v = h * 2^24 + l and 0 <= l < 2^24      *)
(* (floor representation: h is negative for a negative v).  The 24-bit     *)
(* limb is the width of the two 3-byte groups g1 and g2 of the code; TLC's *)
(* own integers are 32 bits wide and cannot hold a 48-bit value.           *)
(*                                                                         *)
(* Text.  A JavaScript string is the sequence of its UTF-16 code units     *)
(* ("A" is 65, "_" is 95), so that character-code comparison and the       *)
(* charCodeAt lookups of the decoder are what the code computes.           *)
(***************************************************************************)
EXTENDS Integers, Sequences, FiniteSets

VARIABLES
    lastGeneratedTimestamp,  \* part_001:31, the process-wide last issued value
    log,                     \* history of the generator calls that returned
    out,                     \* what the last public call returned or threw
    trail,                   \* codec runs: an input followed by its images
    call,                    \* the last call whose arguments are recorded
    threads                  \* callers whose generator call runs step by step

vars == <<lastGeneratedTimestamp, log, out, trail, call, threads>>

(***************************************************************************)
(* Bounds of the model.                                                    *)
(***************************************************************************)
\* generator calls recorded in one behaviour
MaxCalls == 3
\* the codec inputs are the pivot values -Spread .. +Spread
Spread == 1

\* generator calls of one run that mixes them with the reading functions
MaxAuxCalls == 2

(***************************************************************************)
(* Numbers as two 24-bit limbs.                                            *)
(***************************************************************************)
Limb == 2^24

Num(h, l) == [hi |-> h, lo |-> l]

Zero == Num(0, 0)

\* v + d for a small integer d (|d| < 2^24)
NumPlus(v, d) == Num(v.hi + ((v.lo + d) \div Limb), (v.lo + d) % Limb)

\* a + b, carrying from the low limb
NumAdd(a, b) == Num(a.hi + b.hi + ((a.lo + b.lo) \div Limb), (a.lo + b.lo) % Limb)

\* a - b, borrowing from the high limb
NumSub(a, b) == Num(a.hi - b.hi + ((a.lo - b.lo) \div Limb), (a.lo - b.lo) % Limb)

NumLT(a, b) == a.hi < b.hi \/ (a.hi = b.hi /\ a.lo < b.lo)

NumLE(a, b) == a = b \/ NumLT(a, b)

\* 2^48 as a number; an Instant is a number in [0, 2^48 - 1]
TwoPow48 == Num(Limb, 0)

IsInstant(v) == NumLE(Zero, v) /\ NumLT(v, TwoPow48)

\* v mod 2^48
Mod48(v) == Num(v.hi % Limb, v.lo)

\* NaN, which is no limb pair
NotANumber == [hi |-> 0, lo |-> -1]

\* a <= b of JavaScript: false when either side is NaN
JsLessEq(a, b) == a # NotANumber /\ b # NotANumber /\ NumLE(a, b)

(***************************************************************************)
(* part_001:15-28, the alphabet and the two lookup tables.                 *)
(***************************************************************************)
BASE64URL_CHARS ==
   << 65, 66, 67, 68, 69, 70, 71, 72, 73, 74, 75, 76, 77, 78, 79, 80,
      81, 82, 83, 84, 85, 86, 87, 88, 89, 90, 97, 98, 99, 100, 101, 102,
      103, 104, 105, 106, 107, 108, 109, 110, 111, 112, 113, 114, 115, 116, 117, 118,
      119, 120, 121, 122, 48, 49, 50, 51, 52, 53, 54, 55, 56, 57, 45, 95 >>

\* the text a template literal prints for an array slot that does not exist
UndefinedText == <<117, 110, 100, 101, 102, 105, 110, 101, 100>>

\* `${ENCODE_TABLE[i]}`: the one-symbol text at index i (0-based), or the
\* text "undefined" when i is outside the 64 slots
ENCODE_TABLE(i) ==
    IF i \in 0..63 THEN <<BASE64URL_CHARS[i + 1]>> ELSE UndefinedText

\* DECODE_TABLE[code]: 256 slots filled with -1, then the index of each
\* alphabet symbol at its character code
DECODE_TABLE(code) ==
    IF \E i \in 0..63 : BASE64URL_CHARS[i + 1] = code
    THEN CHOOSE i \in 0..63 : BASE64URL_CHARS[i + 1] = code
    ELSE -1

\* part_001:224, /^[A-Za-z0-9_-]{8}$/ : the character class and the test
RegexClass == (65..90) \cup (97..122) \cup (48..57) \cup {95, 45}

BASE64URL_REGEX(text) ==
    Len(text) = 8 /\ \A i \in 1..Len(text) : text[i] \in RegexClass

(***************************************************************************)
(* part_001:44-50 and 148-154, the monotonic clock step shared by both     *)
(* generators: the value stored in lastGeneratedTimestamp and encoded.     *)
(***************************************************************************)
MonotonicStepNoBump(now, last) == IF NumLT(now, last) THEN NumPlus(last, 1) ELSE now

MonotonicStepClamp(now, last) == IF NumLE(now, last) THEN last ELSE now

MonotonicStepAlwaysBump(now, last) == NumPlus(last, 1)

MonotonicStepBumpTwo(now, last) == IF NumLE(now, last) THEN NumPlus(last, 2) ELSE now

MonotonicStep(now, last) == IF JsLessEq(now, last) THEN NumPlus(last, 1) ELSE now

(***************************************************************************)
(* part_001:56-64, packing the number into 6 bytes.  Math.floor(t / 2^k)   *)
(* is exact; x & 0xFF and the stores into the Uint8Array keep x mod 256;   *)
(* t >>> k first takes t mod 2^32.  NaN & 0xFF and NaN >>> k are 0.        *)
(***************************************************************************)
UShr24(t) == t.hi % 256

UShr16(t) == (t.hi % 256) * 256 + (t.lo \div 65536)

UShr8(t) == (t.hi % 256) * 65536 + (t.lo \div 256)

PackBytesLittleEndian(t) ==
    << t.lo % 256,
       UShr8(t) % 256,
       UShr16(t) % 256,
       UShr24(t) % 256,
       (t.hi \div 256) % 256,
       (t.hi \div 65536) % 256 >>

PackBytes(t) ==
    IF t = NotANumber
    THEN << 0, 0, 0, 0, 0, 0 >>
    ELSE << (t.hi \div 65536) % 256,
            (t.hi \div 256) % 256,
            UShr24(t) % 256,
            UShr16(t) % 256,
            UShr8(t) % 256,
            t.lo % 256 >>

(***************************************************************************)
(* part_001:66-85, the inline Base64URL encoding of the 6 bytes.  The      *)
(* three fields of g1 (and g2) do not overlap, so | is +.                  *)
(***************************************************************************)
EncodeBytesNoMask(b) ==
    LET g1 == b[1] * 65536 + b[2] * 256 + b[3]
        g2 == b[4] * 65536 + b[5] * 256 + b[6]
    IN  ENCODE_TABLE((g1 \div 262144) % 64) \o ENCODE_TABLE(g1 \div 4096)
        \o ENCODE_TABLE((g1 \div 64) % 64) \o ENCODE_TABLE(g1 % 64)
        \o ENCODE_TABLE((g2 \div 262144) % 64) \o ENCODE_TABLE((g2 \div 4096) % 64)
        \o ENCODE_TABLE((g2 \div 64) % 64) \o ENCODE_TABLE(g2 % 64)

EncodeBytesDropLast(b) ==
    LET g1 == b[1] * 65536 + b[2] * 256 + b[3]
        g2 == b[4] * 65536 + b[5] * 256 + b[6]
    IN  ENCODE_TABLE((g1 \div 262144) % 64) \o ENCODE_TABLE((g1 \div 4096) % 64)
        \o ENCODE_TABLE((g1 \div 64) % 64) \o ENCODE_TABLE(g1 % 64)
        \o ENCODE_TABLE((g2 \div 262144) % 64) \o ENCODE_TABLE((g2 \div 4096) % 64)
        \o ENCODE_TABLE((g2 \div 64) % 64) \o ENCODE_TABLE((g2 \div 64) % 64)

EncodeBytes(b) ==
    LET g1 == b[1] * 65536 + b[2] * 256 + b[3]
        g2 == b[4] * 65536 + b[5] * 256 + b[6]
        c0 == ENCODE_TABLE((g1 \div 262144) % 64)
        c1 == ENCODE_TABLE((g1 \div 4096) % 64)
        c2 == ENCODE_TABLE((g1 \div 64) % 64)
        c3 == ENCODE_TABLE(g1 % 64)
        c4 == ENCODE_TABLE((g2 \div 262144) % 64)
        c5 == ENCODE_TABLE((g2 \div 4096) % 64)
        c6 == ENCODE_TABLE((g2 \div 64) % 64)
        c7 == ENCODE_TABLE(g2 % 64)
    IN  c0 \o c1 \o c2 \o c3 \o c4 \o c5 \o c6 \o c7

\* part_001:53-85, the encode step of generateTimestamp48
Encode48(timestamp48) == EncodeBytes(PackBytes(timestamp48))

(***************************************************************************)
(* part_001:156-172, the encode step of generateTimestamp48Fast:           *)
(* setBigUint64 stores BigInt(now) mod 2^64 big-endian in 8 bytes, and     *)
(* bytes 2..7 are read back.                                               *)
(***************************************************************************)
\* FAST_VIEW.getUint8(k) after FAST_VIEW.setBigUint64(0, BigInt(now), false)
FastGetUint8(now, k) ==
    CASE k = 2 -> (now.hi \div 65536) % 256
      [] k = 3 -> (now.hi \div 256) % 256
      [] k = 4 -> now.hi % 256
      [] k = 5 -> (now.lo \div 65536) % 256
      [] k = 6 -> (now.lo \div 256) % 256
      [] k = 7 -> now.lo % 256

\* the bytes 2..7 had setBigUint64 been told to store little-endian
FastBytesLittleEndian(now) ==
    << (now.lo \div 65536) % 256, now.hi % 256, (now.hi \div 256) % 256,
       (now.hi \div 65536) % 256, 0, 0 >>

FastBytes(now) == [k \in 1..6 |-> FastGetUint8(now, k + 1)]

FastEncodeBytesNoMask(b) ==
    LET g1 == b[1] * 65536 + b[2] * 256 + b[3]
        g2 == b[4] * 65536 + b[5] * 256 + b[6]
    IN  ENCODE_TABLE(g1 \div 262144) \o ENCODE_TABLE(g1 \div 4096)
        \o ENCODE_TABLE((g1 \div 64) % 64) \o ENCODE_TABLE(g1 % 64)
        \o ENCODE_TABLE(g2 \div 262144) \o ENCODE_TABLE((g2 \div 4096) % 64)
        \o ENCODE_TABLE((g2 \div 64) % 64) \o ENCODE_TABLE(g2 % 64)

\* part_001:168-172: the first symbol of each group is looked up unmasked
FastEncodeBytes(b) ==
    LET g1 == b[1] * 65536 + b[2] * 256 + b[3]
        g2 == b[4] * 65536 + b[5] * 256 + b[6]
    IN  ENCODE_TABLE(g1 \div 262144) \o ENCODE_TABLE((g1 \div 4096) % 64)
        \o ENCODE_TABLE((g1 \div 64) % 64) \o ENCODE_TABLE(g1 % 64)
        \o ENCODE_TABLE(g2 \div 262144) \o ENCODE_TABLE((g2 \div 4096) % 64)
        \o ENCODE_TABLE((g2 \div 64) % 64) \o ENCODE_TABLE(g2 % 64)

Encode48Fast(now) == FastEncodeBytes(FastBytes(now))

(***************************************************************************)
(* JavaScript values handed to and returned by the public functions.       *)
(***************************************************************************)
JsString(s) == [type |-> "string", chars |-> s, num |-> Zero, err |-> ""]

JsNumber(n) == [type |-> "number", chars |-> <<>>, num |-> n, err |-> ""]

\* null, undefined, an object: a value that is neither text nor a number
JsOther(t) == [type |-> t, chars |-> <<>>, num |-> Zero, err |-> ""]

\* a thrown Error: its message, and the number the message carries
Throw(msg, n) == [type |-> "throw", chars |-> <<>>, num |-> n, err |-> msg]

\* part_001:96, 100, 104: the three messages of decodeTimestamp48
ErrNotString == "Encoded timestamp must be a string"

ErrLength == "Invalid timestamp length"

ErrFormat == "Invalid Base64URL format"

(***************************************************************************)
(* part_001:107-139, the decoding arithmetic on a validated text.          *)
(***************************************************************************)
\* part_001:111-128: four symbols -> a 24-bit group -> three bytes, twice
DecodeBytes(encoded) ==
    LET g1 == DECODE_TABLE(encoded[1]) * 262144 + DECODE_TABLE(encoded[2]) * 4096
              + DECODE_TABLE(encoded[3]) * 64 + DECODE_TABLE(encoded[4])
        g2 == DECODE_TABLE(encoded[5]) * 262144 + DECODE_TABLE(encoded[6]) * 4096
              + DECODE_TABLE(encoded[7]) * 64 + DECODE_TABLE(encoded[8])
    IN  << (g1 \div 65536) % 256, (g1 \div 256) % 256, g1 % 256,
           (g2 \div 65536) % 256, (g2 \div 256) % 256, g2 % 256 >>

\* bytes[2] << 24 : a 32-bit signed shift, negative once the byte is >= 128
Int32Shl24(byte) == Num(IF byte >= 128 THEN byte - 256 ELSE byte, 0)

\* part_001:132-137: the sum that rebuilds the timestamp
ReassembleBytes(bytes) ==
    NumAdd(NumAdd(NumAdd(Num(bytes[1] * 65536, 0), Num(bytes[2] * 256, 0)),
                  Int32Shl24(bytes[3])),
           Num(0, bytes[4] * 65536 + bytes[5] * 256 + bytes[6]))

(***************************************************************************)
(* part_001:94-140, decodeTimestamp48: the three checks in the order of    *)
(* the code, then the arithmetic.                                          *)
(***************************************************************************)
decodeTimestamp48FormatFirst(encoded) ==
    IF encoded.type # "string"
    THEN Throw(ErrNotString, Zero)
    ELSE IF \E i \in 1..Len(encoded.chars) : encoded.chars[i] \notin RegexClass
    THEN Throw(ErrFormat, Zero)
    ELSE IF Len(encoded.chars) # 8
    THEN Throw(ErrLength, Num(0, Len(encoded.chars)))
    ELSE JsNumber(ReassembleBytes(DecodeBytes(encoded.chars)))

decodeTimestamp48(encoded) ==
    IF encoded.type # "string"
    THEN Throw(ErrNotString, Zero)
    ELSE IF Len(encoded.chars) # 8
    THEN Throw(ErrLength, Num(0, Len(encoded.chars)))
    ELSE IF ~BASE64URL_REGEX(encoded.chars)
    THEN Throw(ErrFormat, Zero)
    ELSE JsNumber(ReassembleBytes(DecodeBytes(encoded.chars)))

(***************************************************************************)
(* part_000:88-132, decodeTimestamp48 before the optimization: the decode  *)
(* table is a Map from symbol to index, and the six bytes are multiplied   *)
(* by Math.pow(2, 40) .. Math.pow(2, 8), in floating point.                *)
(***************************************************************************)
\* part_000:24-27, DECODE_TABLE.get(symbol) for a symbol of the alphabet
OriginalDecodeTable(code) ==
    (CHOOSE i \in 1..64 : BASE64URL_CHARS[i] = code) - 1

OriginalDecodeBytes(encoded) ==
    LET g1 == OriginalDecodeTable(encoded[1]) * 262144
              + OriginalDecodeTable(encoded[2]) * 4096
              + OriginalDecodeTable(encoded[3]) * 64
              + OriginalDecodeTable(encoded[4])
        g2 == OriginalDecodeTable(encoded[5]) * 262144
              + OriginalDecodeTable(encoded[6]) * 4096
              + OriginalDecodeTable(encoded[7]) * 64
              + OriginalDecodeTable(encoded[8])
    IN  << (g1 \div 65536) % 256, (g1 \div 256) % 256, g1 % 256,
           (g2 \div 65536) % 256, (g2 \div 256) % 256, g2 % 256 >>

\* part_000:125-130
OriginalReassembleBytes(bytes) ==
    NumAdd(NumAdd(NumAdd(Num(bytes[1] * 65536, 0), Num(bytes[2] * 256, 0)),
                  Num(bytes[3], 0)),
           Num(0, bytes[4] * 65536 + bytes[5] * 256 + bytes[6]))

OriginalDecodeTimestamp48(encoded) ==
    IF encoded.type # "string"
    THEN Throw(ErrNotString, Zero)
    ELSE IF Len(encoded.chars) # 8
    THEN Throw(ErrLength, Num(0, Len(encoded.chars)))
    ELSE IF ~BASE64URL_REGEX(encoded.chars)
    THEN Throw(ErrFormat, Zero)
    ELSE JsNumber(OriginalReassembleBytes(OriginalDecodeBytes(encoded.chars)))

(***************************************************************************)
(* part_001:43-86 and 147-173, one generator call: the Date.now() reading  *)
(* and the state before the call give the value issued (the new            *)
(* lastGeneratedTimestamp) and the token returned.                         *)
(***************************************************************************)
generateTimestamp48Truncating(now, last) ==
    LET issued == Mod48(MonotonicStep(now, last))
    IN  [now |-> now, fast |-> FALSE, prev |-> last, issued |-> issued,
         token |-> Encode48(issued)]

generateTimestamp48(now, last) ==
    LET issued == MonotonicStep(now, last)
    IN  [now |-> now, fast |-> FALSE, prev |-> last, issued |-> issued,
         token |-> Encode48(issued)]

generateTimestamp48Fast(now, last) ==
    LET issued == MonotonicStep(now, last)
    IN  [now |-> now, fast |-> TRUE, prev |-> last, issued |-> issued,
         token |-> Encode48Fast(issued)]

(***************************************************************************)
(* part_001:207-211, isValidTimestamp, and 218-221, getTimestampAge.       *)
(***************************************************************************)
JsBoolean(b) == JsOther(IF b THEN "true" ELSE "false")

isValidTimestampLengthOnly(timestamp) ==
    IF timestamp.type # "string" THEN JsBoolean(FALSE)
    ELSE JsBoolean(Len(timestamp.chars) = 8)

isValidTimestamp(timestamp) ==
    IF timestamp.type # "string" THEN JsBoolean(FALSE)
    ELSE IF Len(timestamp.chars) # 8 THEN JsBoolean(FALSE)
    ELSE JsBoolean(BASE64URL_REGEX(timestamp.chars))

\* now is the Date.now() reading taken after the decoding
getTimestampAge(encoded, now) ==
    LET timestamp == decodeTimestamp48(encoded)
    IN  IF timestamp.type = "throw" THEN timestamp
        ELSE JsNumber(NumSub(now, timestamp.num))

(***************************************************************************)
(* part_001:183-200, generateBatch.                                        *)
(***************************************************************************)
\* the count argument: a number n (whole) or n + 1/2, or a missing argument
CountOf(n) == [type |-> "number", whole |-> TRUE, n |-> n]

CountAndAHalf(n) == [type |-> "number", whole |-> FALSE, n |-> n]

CountMissing == [type |-> "undefined", whole |-> FALSE, n |-> 0]

\* the options argument: an object with or without a fast property, null,
\* a text, or a missing argument
OptionsObject(fast) == [type |-> "object", fast |-> fast]

OptionsNull == [type |-> "null", fast |-> "absent"]

OptionsText == [type |-> "string", fast |-> "absent"]

OptionsMissing == [type |-> "undefined", fast |-> "absent"]

\* part_001:183, the default parameter values
CountOrDefault(count) == IF count.type = "undefined" THEN CountOf(1) ELSE count

OptionsOrDefault(options) ==
    IF options.type = "undefined" THEN OptionsObject("absent") ELSE options

CountInvalidOffByOne(count) ==
    ~(count.type = "number" /\ count.whole) \/ count.n < 1 \/ count.n >= 10000

\* part_001:184, the count guard
CountInvalid(count) ==
    ~(count.type = "number" /\ count.whole) \/ count.n < 1 \/ count.n > 10000

\* part_001:188, the options guard (typeof null is 'object')
OptionsInvalid(options) == options.type \notin {"object", "null"} \/ options.type = "null"

ErrCount == "Count must be an integer between 1 and 10000"

ErrOptions == "Options must be an object"

RECURSIVE BatchLoopStale(_, _, _, _)
BatchLoopStale(readings, i, fast, last) ==
    IF i > Len(readings)
    THEN <<>>
    ELSE LET e == IF fast THEN generateTimestamp48Fast(readings[i], last)
                          ELSE generateTimestamp48(readings[i], last)
         IN  <<e>> \o BatchLoopStale(readings, i + 1, fast, last)

\* part_001:196-198, the loop: call i reads readings[i]
RECURSIVE BatchLoop(_, _, _, _)
BatchLoop(readings, i, fast, last) ==
    IF i > Len(readings)
    THEN <<>>
    ELSE LET e == IF fast THEN generateTimestamp48Fast(readings[i], last)
                          ELSE generateTimestamp48(readings[i], last)
         IN  <<e>> \o BatchLoop(readings, i + 1, fast, e.issued)

\* part_001:196-198, the loop of calls lo..hi when every call reads the same
\* clock value now (a batch that completes within one millisecond); the
\* range is halved so that a batch of 10000 is evaluated in shallow depth
RECURSIVE BatchLoopRange(_, _, _, _, _)
BatchLoopRange(now, lo, hi, fast, last) ==
    IF lo > hi THEN <<>>
    ELSE IF lo = hi
    THEN << IF fast THEN generateTimestamp48Fast(now, last)
                    ELSE generateTimestamp48(now, last) >>
    ELSE LET mid == (lo + hi) \div 2
             head == BatchLoopRange(now, lo, mid, fast, last)
         IN  head \o BatchLoopRange(now, mid + 1, hi, fast,
                                    head[Len(head)].issued)

(***************************************************************************)
(* The wall clock: the readings Date.now() may give a call.  -1 (a clock   *)
(* set before 1970), 0, 51, 2^31 - 1, a reading of 31 August 2025,         *)
(* 2^48 - 1 and 2^48 + 51.                                                 *)
(***************************************************************************)
ClockReadings ==
    { Num(-1, Limb - 1), Zero, Num(0, 51), Num(127, Limb - 1),
      Num(104701, 4660), Num(Limb - 1, Limb - 1), Num(Limb, 51) }

\* what a call returned: the function, "return" or "throw", the tokens
Returned(fn, tokens) == [fn |-> fn, kind |-> "return", tokens |-> tokens, err |-> ""]

Threw(fn, msg) == [fn |-> fn, kind |-> "throw", tokens |-> <<>>, err |-> msg]

NoCall == [fn |-> "", kind |-> "", tokens |-> <<>>, err |-> ""]

\* a recorded call: the function, its arguments and clock readings, and
\* what it returned or threw
Called(fn, args, ret) == [fn |-> fn, args |-> args, ret |-> ret]

NoArgs == Called("", <<>>, JsOther("undefined"))

\* no caller is inside a generator call
NoThreads == <<>>

TokensOf(entries) == [i \in 1..Len(entries) |-> entries[i].token]

(***************************************************************************)
(* The generator as a state machine: Init is the state after the module    *)
(* is loaded, one action per exported generator.                           *)
(***************************************************************************)
Init ==
    /\ lastGeneratedTimestamp = Zero
    /\ log = <<>>
    /\ out = NoCall
    /\ trail = <<>>
    /\ call = NoArgs
    /\ threads = NoThreads

\* Date.now is missing: the call at part_001:44 or 148 throws a TypeError
ClockUnavailable == [hi |-> 0, lo |-> -2]

ErrNoClock == "Date.now is not a function"

\* part_001:157, BigInt(now) of a NaN throws a RangeError
ErrBigInt == "The number NaN cannot be converted to a BigInt because it is not an integer"

CallGenerateTimestamp48(now) ==
    /\ Len(log) < MaxCalls
    /\ IF now = ClockUnavailable
       THEN /\ out' = Threw("generateTimestamp48", ErrNoClock)
            /\ UNCHANGED <<lastGeneratedTimestamp, log>>
       ELSE LET e == generateTimestamp48(now, lastGeneratedTimestamp)
            IN  /\ lastGeneratedTimestamp' = e.issued
                /\ log' = Append(log, e)
                /\ out' = Returned("generateTimestamp48", <<e.token>>)
    /\ UNCHANGED <<trail, threads>>
    /\ call' = NoArgs

\* part_001:154 has stored the NaN when part_001:157 throws
CallGenerateTimestamp48Fast(now) ==
    /\ Len(log) < MaxCalls
    /\ IF now = ClockUnavailable
       THEN /\ out' = Threw("generateTimestamp48Fast", ErrNoClock)
            /\ UNCHANGED <<lastGeneratedTimestamp, log>>
       ELSE IF MonotonicStep(now, lastGeneratedTimestamp) = NotANumber
       THEN /\ out' = Threw("generateTimestamp48Fast", ErrBigInt)
            /\ lastGeneratedTimestamp' = NotANumber
            /\ UNCHANGED log
       ELSE LET e == generateTimestamp48Fast(now, lastGeneratedTimestamp)
            IN  /\ lastGeneratedTimestamp' = e.issued
                /\ log' = Append(log, e)
                /\ out' = Returned("generateTimestamp48Fast", <<e.token>>)
    /\ UNCHANGED <<trail, threads>>
    /\ call' = NoArgs

BatchCounts ==
    {CountOf(n) : n \in {-1, 0, 10001} \cup (1..MaxCalls)}
    \cup {CountAndAHalf(1), CountMissing}

BatchOptions ==
    {OptionsObject(f) : f \in {"true", "false", "absent"}}
    \cup {OptionsNull, OptionsText, OptionsMissing}

CallGenerateBatch(countArg, optionsArg) ==
    LET count == CountOrDefault(countArg)
        options == OptionsOrDefault(optionsArg)
    IN  /\ UNCHANGED <<trail, threads>>
        /\ call' = NoArgs
        /\ IF CountInvalid(count)
           THEN /\ out' = Threw("generateBatch", ErrCount)
                /\ UNCHANGED <<lastGeneratedTimestamp, log>>
           ELSE IF OptionsInvalid(options)
           THEN /\ out' = Threw("generateBatch", ErrOptions)
                /\ UNCHANGED <<lastGeneratedTimestamp, log>>
           ELSE /\ Len(log) + count.n <= MaxCalls
                /\ \E readings \in [1..count.n -> ClockReadings] :
                     LET es == BatchLoop(readings, 1, options.fast = "true",
                                         lastGeneratedTimestamp)
                     IN  /\ lastGeneratedTimestamp' = es[Len(es)].issued
                         /\ log' = log \o es
                         /\ out' = Returned("generateBatch", TokensOf(es))

(***************************************************************************)
(* generateBatch as the first call after the module is loaded or after one *)
(* generator call, with counts up to the largest the guard admits and a    *)
(* clock that stands still for the length of the batch.                    *)
(***************************************************************************)
FrozenCounts == BatchCounts \cup {CountOf(10000)}

\* 0, 51, a reading of 31 August 2025, and 2^48 - 1
FrozenReadings ==
    { Zero, Num(0, 51), Num(104701, 4660), Num(Limb - 1, Limb - 1) }

\* one generator call before the batch
BatchPriorCall(now) ==
    /\ call = NoArgs
    /\ log = <<>>
    /\ CallGenerateTimestamp48(now)

CallGenerateBatchFrozenLateCheck(countArg, optionsArg, now) ==
    LET count == CountOrDefault(countArg)
        options == OptionsOrDefault(optionsArg)
    IN  /\ call = NoArgs
        /\ count.n > MaxCalls => log = <<>>
        /\ UNCHANGED <<trail, threads>>
        /\ call' = Called("generateBatch", <<countArg, optionsArg>>,
                          JsOther("undefined"))
        /\ IF CountInvalid(count)
           THEN /\ out' = Threw("generateBatch", ErrCount)
                /\ UNCHANGED <<lastGeneratedTimestamp, log>>
           ELSE IF OptionsInvalid(options)
           THEN LET e == generateTimestamp48(now, lastGeneratedTimestamp)
                IN  /\ out' = Threw("generateBatch", ErrOptions)
                    /\ lastGeneratedTimestamp' = e.issued
                    /\ log' = Append(log, e)
           ELSE LET es == BatchLoopRange(now, 1, count.n, options.fast = "true",
                                         lastGeneratedTimestamp)
                IN  /\ lastGeneratedTimestamp' = es[Len(es)].issued
                    /\ log' = log \o es
                    /\ out' = Returned("generateBatch", TokensOf(es))

\* a batch above MaxCalls is taken only as the first call
CallGenerateBatchFrozen(countArg, optionsArg, now) ==
    LET count == CountOrDefault(countArg)
        options == OptionsOrDefault(optionsArg)
    IN  /\ call = NoArgs
        /\ count.n > MaxCalls => log = <<>>
        /\ UNCHANGED <<trail, threads>>
        /\ call' = Called("generateBatch", <<countArg, optionsArg>>,
                          JsOther("undefined"))
        /\ IF CountInvalid(count)
           THEN /\ out' = Threw("generateBatch", ErrCount)
                /\ UNCHANGED <<lastGeneratedTimestamp, log>>
           ELSE IF OptionsInvalid(options)
           THEN /\ out' = Threw("generateBatch", ErrOptions)
                /\ UNCHANGED <<lastGeneratedTimestamp, log>>
           ELSE LET es == BatchLoopRange(now, 1, count.n, options.fast = "true",
                                         lastGeneratedTimestamp)
                IN  /\ lastGeneratedTimestamp' = es[Len(es)].issued
                    /\ log' = log \o es
                    /\ out' = Returned("generateBatch", TokensOf(es))

BatchNext ==
    \/ \E now \in FrozenReadings : BatchPriorCall(now)
    \/ \E c \in FrozenCounts, o \in BatchOptions, now \in FrozenReadings :
          CallGenerateBatchFrozen(c, o, now)

BatchSpec == Init /\ [][BatchNext]_vars

(***************************************************************************)
(* The generators on a clock that can be missing or give NaN.              *)
(***************************************************************************)
\* no clock, NaN, 51 and a reading of 31 August 2025
FaultReadings == { ClockUnavailable, NotANumber, Num(0, 51), Num(104701, 4660) }

FaultNext ==
    \/ \E now \in FaultReadings : CallGenerateTimestamp48(now)
    \/ \E now \in FaultReadings : CallGenerateTimestamp48Fast(now)

FaultSpec == Init /\ [][FaultNext]_vars

Next ==
    \/ \E now \in ClockReadings : CallGenerateTimestamp48(now)
    \/ \E now \in ClockReadings : CallGenerateTimestamp48Fast(now)
    \/ \E c \in BatchCounts, o \in BatchOptions : CallGenerateBatch(c, o)

Spec == Init /\ [][Next]_vars

(***************************************************************************)
(* The codec as pure functions: the encode step of either generator        *)
(* applied to a chosen number, and decodeTimestamp48 applied to a chosen   *)
(* value.  trail holds the input followed by the successive images.        *)
(***************************************************************************)
\* boundary values of the 48-bit range: 0, 52, 2^24, 2^31, 2^32, 2^40,
\* 2^46, 2^48 and a reading of 31 August 2025
CodecPivots ==
    { Zero, Num(0, 52), Num(1, 0), Num(128, 0), Num(256, 0), Num(65536, 0),
      Num(2^22, 0), Num(104701, 4660), TwoPow48 }

CodecInstants ==
    { v \in { NumPlus(p, d) : p \in CodecPivots, d \in (0 - Spread)..Spread } :
        IsInstant(v) }

\* the set of the 64 alphabet symbols
Alphabet == { BASE64URL_CHARS[i] : i \in 1..64 }

\* the 8-symbol text whose symbols have the base-64 digits of v, most
\* significant first, as their alphabet indices
TokenText(v) ==
    [ k \in 1..8 |->
        BASE64URL_CHARS[1 + (IF k <= 4 THEN (v.hi \div (64 ^ (4 - k))) % 64
                                         ELSE (v.lo \div (64 ^ (8 - k))) % 64)] ]

\* the number whose base-64 digits are the alphabet indices of the symbols
TokenValue(token) ==
    Num(DECODE_TABLE(token[1]) * 262144 + DECODE_TABLE(token[2]) * 4096
          + DECODE_TABLE(token[3]) * 64 + DECODE_TABLE(token[4]),
        DECODE_TABLE(token[5]) * 262144 + DECODE_TABLE(token[6]) * 4096
          + DECODE_TABLE(token[7]) * 64 + DECODE_TABLE(token[8]))

\* "", "short", "toolong!!", "invalid!", "ab+c_-de", "ab/c_-de", "ab=c_-de",
\* "AAAAAAA=", "AAAAAAA", "AAAAAAAAA", "AAAA AAA"
MalformedTexts ==
    { <<>>,
      <<115, 104, 111, 114, 116>>,
      <<116, 111, 111, 108, 111, 110, 103, 33, 33>>,
      <<105, 110, 118, 97, 108, 105, 100, 33>>,
      <<97, 98, 43, 99, 95, 45, 100, 101>>,
      <<97, 98, 47, 99, 95, 45, 100, 101>>,
      <<97, 98, 61, 99, 95, 45, 100, 101>>,
      <<65, 65, 65, 65, 65, 65, 65, 61>>,
      <<65, 65, 65, 65, 65, 65, 65>>,
      <<65, 65, 65, 65, 65, 65, 65, 65, 65>>,
      <<65, 65, 65, 65, 32, 65, 65, 65>> }

\* the values handed to decodeTimestamp48: every 8-symbol text of a codec
\* instant, the malformed texts, and values that are not text
DecodeInputs ==
    { JsString(TokenText(v)) : v \in CodecInstants }
    \cup { JsString(t) : t \in MalformedTexts }
    \cup { JsOther("null"), JsOther("undefined"), JsOther("object") }

CodecInit ==
    /\ lastGeneratedTimestamp = Zero
    /\ log = <<>>
    /\ out = NoCall
    /\ call = NoArgs
    /\ threads = NoThreads
    /\ trail \in { <<a>> : a \in { JsNumber(v) : v \in CodecInstants } \cup DecodeInputs }

Last(s) == s[Len(s)]

\* part_001:53-85 applied to the number last produced
CodecEncode ==
    /\ Len(trail) < 3
    /\ Last(trail).type = "number"
    /\ trail' = Append(trail, JsString(Encode48(Last(trail).num)))
    /\ UNCHANGED <<lastGeneratedTimestamp, log, out, call, threads>>

\* part_001:156-172 applied to the number last produced
CodecEncodeFast ==
    /\ Len(trail) < 3
    /\ Last(trail).type = "number"
    /\ trail' = Append(trail, JsString(Encode48Fast(Last(trail).num)))
    /\ UNCHANGED <<lastGeneratedTimestamp, log, out, call, threads>>

\* part_001:94-140 applied to the value last produced
CodecDecode ==
    /\ Len(trail) < 3
    /\ Last(trail).type # "throw"
    /\ trail' = Append(trail, decodeTimestamp48(Last(trail)))
    /\ UNCHANGED <<lastGeneratedTimestamp, log, out, call, threads>>

CodecNext == CodecEncode \/ CodecEncodeFast \/ CodecDecode

CodecSpec == CodecInit /\ [][CodecNext]_vars

(***************************************************************************)
(* The reading functions beside the generator: decodeTimestamp48,          *)
(* isValidTimestamp and getTimestampAge called between generator calls,    *)
(* on the tokens issued so far, on other texts and on values that are not  *)
(* text.                                                                   *)
(***************************************************************************)
\* 51, 2^31 - 1, a reading of 31 August 2025, and 2^48 - 1
AuxReadings ==
    { Num(0, 51), Num(127, Limb - 1), Num(104701, 4660), Num(Limb - 1, Limb - 1) }

\* "invalid!", "toolong!!", "" and "________"
AuxTexts ==
    { <<105, 110, 118, 97, 108, 105, 100, 33>>,
      <<116, 111, 111, 108, 111, 110, 103, 33, 33>>,
      <<>>,
      TokenText(Num(Limb - 1, Limb - 1)) }

AuxInputs ==
    { JsString(log[i].token) : i \in 1..Len(log) }
    \cup { JsString(t) : t \in AuxTexts }
    \cup { JsOther("null"), JsNumber(Num(0, 12345678)) }

AuxGenerateTimestamp48(now) ==
    /\ Len(log) < MaxAuxCalls
    /\ CallGenerateTimestamp48(now)

AuxGenerateTimestamp48Fast(now) ==
    /\ Len(log) < MaxAuxCalls
    /\ CallGenerateTimestamp48Fast(now)

CallDecodeTimestamp48(encoded) ==
    /\ call' = Called("decodeTimestamp48", <<encoded>>, decodeTimestamp48(encoded))
    /\ UNCHANGED <<lastGeneratedTimestamp, log, out, trail, threads>>

CallIsValidTimestamp(timestamp) ==
    /\ call' = Called("isValidTimestamp", <<timestamp>>, isValidTimestamp(timestamp))
    /\ UNCHANGED <<lastGeneratedTimestamp, log, out, trail, threads>>

CallGetTimestampAgeKeepsReading(encoded, now) ==
    /\ call' = Called("getTimestampAge", <<encoded, JsNumber(now)>>,
                      getTimestampAge(encoded, now))
    /\ lastGeneratedTimestamp' = now
    /\ UNCHANGED <<log, out, trail, threads>>

CallGetTimestampAge(encoded, now) ==
    /\ call' = Called("getTimestampAge", <<encoded, JsNumber(now)>>,
                      getTimestampAge(encoded, now))
    /\ UNCHANGED <<lastGeneratedTimestamp, log, out, trail, threads>>

AuxNext ==
    \/ \E now \in AuxReadings : AuxGenerateTimestamp48(now)
    \/ \E now \in AuxReadings : AuxGenerateTimestamp48Fast(now)
    \/ \E encoded \in AuxInputs : CallDecodeTimestamp48(encoded)
    \/ \E timestamp \in AuxInputs : CallIsValidTimestamp(timestamp)
    \/ \E encoded \in AuxInputs, now \in AuxReadings : CallGetTimestampAge(encoded, now)

AuxSpec == Init /\ [][AuxNext]_vars

(***************************************************************************)
(* generateTimestamp48 called by several callers over the one module       *)
(* variable.  The function is synchronous: the clock read at part_001:44,  *)
(* the comparison at 47-49, the write at 50 and the encoding at 53-85 run  *)
(* to completion before the host lets another caller in, so the callers'   *)
(* calls interleave in any order, each call as one step.                   *)
(***************************************************************************)
Callers == {1, 2, 3}

ThreadAt(pc, now, token) == [pc |-> pc, now |-> now, token |-> token]

ThreadInit ==
    /\ lastGeneratedTimestamp = Zero
    /\ log = <<>>
    /\ out = NoCall
    /\ trail = <<>>
    /\ call = NoArgs
    /\ threads = [c \in Callers |-> ThreadAt("start", Zero, <<>>)]

\* the clock readings inside 0 .. 2^48 - 1
ThreadReadings == { reading \in ClockReadings : IsInstant(reading) }

\* part_001:43-86, the call of caller c from the clock read to the return
ThreadCall(c, reading) ==
    /\ threads[c].pc = "start"
    /\ LET e == generateTimestamp48(reading, lastGeneratedTimestamp)
       IN  /\ lastGeneratedTimestamp' = e.issued
           /\ log' = Append(log, e)
           /\ out' = Returned("generateTimestamp48", <<e.token>>)
           /\ threads' = [threads EXCEPT ![c] = ThreadAt("done", e.issued, e.token)]
    /\ UNCHANGED <<trail, call>>

ThreadNext ==
    \E c \in Callers, reading \in ThreadReadings : ThreadCall(c, reading)

ThreadSpec == ThreadInit /\ [][ThreadNext]_vars

(***************************************************************************)
(* Orderings on texts.                                                     *)
(***************************************************************************)
\* the sort key of a symbol: its position in the alphabet, or its character code
SortKey(c, byAlphabetIndex) == IF byAlphabetIndex THEN DECODE_TABLE(c) ELSE c

\* a sorts strictly before b, comparing symbol by symbol by sort key
LexLess(a, b, byAlphabetIndex) ==
    \/ \E k \in 1..Len(a) :
          /\ k <= Len(b)
          /\ \A m \in 1..(k - 1) : a[m] = b[m]
          /\ SortKey(a[k], byAlphabetIndex) < SortKey(b[k], byAlphabetIndex)
    \/ /\ Len(a) < Len(b)
       /\ \A m \in 1..Len(a) : a[m] = b[m]

WellFormedToken(text) == Len(text) = 8 /\ \A k \in 1..Len(text) : text[k] \in Alphabet

(***************************************************************************)
(* The claims.                                                             *)
(***************************************************************************)

\* C1: every generator call, by either path, alone or in a batch, whatever
\* the clock reads, stores in lastGeneratedTimestamp a value strictly greater
\* than the one stored before the call.
StrictlyIncreasingIssue ==
    /\ \A i \in 1..Len(log) :
          /\ NumLT(log[i].prev, log[i].issued)
          /\ log[i].prev = (IF i = 1 THEN Zero ELSE log[i - 1].issued)
    /\ lastGeneratedTimestamp = (IF log = <<>> THEN Zero ELSE Last(log).issued)

\* C1 witness: three calls, the clock jumping backwards and then frozen,
\* both paths used, the last two calls made by a batch.
StrictlyIncreasingIssueWitness ==
    /\ Len(log) = 3
    /\ NumLT(log[2].now, log[1].now)
    /\ log[3].now = log[2].now
    /\ log[1].fast # log[2].fast
    /\ out.fn = "generateBatch"
    /\ Len(out.tokens) = 2

Decoded(i) == decodeTimestamp48(JsString(log[i].token)).num

\* C2: when every call so far was generateTimestamp48 and issued an Instant,
\* decoding the returned tokens in call order gives a strictly increasing
\* sequence.
DecodedStrictlyIncreasing ==
    (\A i \in 1..Len(log) : ~log[i].fast /\ IsInstant(log[i].issued))
    => \A i \in 1..(Len(log) - 1) : NumLT(Decoded(i), Decoded(i + 1))

\* the image by decodeTimestamp48 at position i of the trail (an encode
\* step gives a text, decodeTimestamp48 a number or a thrown error)
IsDecodeImage(i) == i \in 2..Len(trail) /\ trail[i].type # "string"

\* the image by an encode step at position i of the trail
IsEncodeImage(i) == i \in 2..Len(trail) /\ trail[i].type = "string"

\* C3: decoding the token that the encode step produces for an Instant x
\* returns x.
RoundTripInstant ==
    (/\ IsEncodeImage(2)
     /\ IsDecodeImage(3)
     /\ trail[1].type = "number"
     /\ IsInstant(trail[1].num))
    => trail[3] = JsNumber(trail[1].num)

\* C4: encoding the value that decode returns for a well-formed token t
\* gives t again.
RoundTripToken ==
    (/\ IsDecodeImage(2)
     /\ IsEncodeImage(3)
     /\ trail[1].type = "string"
     /\ WellFormedToken(trail[1].chars))
    => trail[3] = trail[1]

ClockStep(e) ==
    /\ NumLT(e.prev, e.now) => e.issued = e.now
    /\ NumLE(e.now, e.prev) => e.issued = NumPlus(e.prev, 1)

\* C5 as stated: a call reading W with last_issued = L issues W when W > L
\* and L + 1 otherwise, the issued value is the new last_issued, and the
\* returned token is the 8-symbol text of the issued value.
ClockStepTokenIsIssued ==
    /\ \A i \in 1..Len(log) :
          /\ ClockStep(log[i])
          /\ TokenValue(log[i].token) = log[i].issued
    /\ log # <<>> => lastGeneratedTimestamp = Last(log).issued

\* C5 amended: the same, the returned token being the 8-symbol text of the
\* issued value modulo 2^48 (the issued value itself when it is an Instant).
ClockStepTokenIsIssuedMod48 ==
    /\ \A i \in 1..Len(log) :
          /\ ClockStep(log[i])
          /\ WellFormedToken(log[i].token)
          /\ TokenValue(log[i].token) = Mod48(log[i].issued)
          /\ IsInstant(log[i].issued) => TokenValue(log[i].token) = log[i].issued
    /\ log # <<>> => lastGeneratedTimestamp = Last(log).issued

\* C5 witness: one call took the reading, one call bumped the last issued
\* value, and one issued value is past the 48-bit range.
ClockStepWitness ==
    /\ \E i \in 1..Len(log) : NumLT(log[i].prev, log[i].now)
    /\ \E i \in 1..Len(log) : NumLE(log[i].now, log[i].prev)
    /\ \E i \in 1..Len(log) : ~IsInstant(log[i].issued)

NonAdvancing(i, j) == \A k \in (i + 1)..j : NumLE(log[k].now, log[k - 1].now)

\* C6: the tokens returned by calls made while the clock does not advance
\* are pairwise distinct.
TightLoopTokensDistinct ==
    \A i \in 1..Len(log) : \A j \in (i + 1)..Len(log) :
        NonAdvancing(i, j) => log[i].token # log[j].token

\* C6 witness: three calls under one frozen reading, single and batched.
TightLoopWitness ==
    /\ Len(log) = 3
    /\ log[1].now = log[2].now
    /\ log[2].now = log[3].now
    /\ out.fn = "generateBatch"
    /\ Len(out.tokens) = 2

\* C7 as stated: of two issued Instants the token of the smaller sorts
\* strictly before the token of the larger in character-code order.
CharCodeSortable ==
    \A i \in 1..Len(log) : \A j \in 1..Len(log) :
        (/\ IsInstant(log[i].issued)
         /\ IsInstant(log[j].issued)
         /\ NumLT(log[i].issued, log[j].issued))
        => LexLess(log[i].token, log[j].token, FALSE)

\* C7 amended: of two issued Instants the token of the smaller sorts
\* strictly before the token of the larger when symbols are compared by
\* their position in the alphabet.
AlphabetIndexSortable ==
    \A i \in 1..Len(log) : \A j \in 1..Len(log) :
        (/\ IsInstant(log[i].issued)
         /\ IsInstant(log[j].issued)
         /\ NumLT(log[i].issued, log[j].issued))
        => LexLess(log[i].token, log[j].token, TRUE)

\* C7 witness: two issued Instants whose tokens are in alphabet order and
\* not in character-code order.
AlphabetIndexSortableWitness ==
    \E i \in 1..Len(log) : \E j \in 1..Len(log) :
        /\ IsInstant(log[i].issued)
        /\ IsInstant(log[j].issued)
        /\ NumLT(log[i].issued, log[j].issued)
        /\ LexLess(log[i].token, log[j].token, TRUE)
        /\ LexLess(log[j].token, log[i].token, FALSE)

\* C8: every token a generator call returned, alone or in a batch, has
\* exactly 8 symbols, all of the alphabet.
TokensWellFormed ==
    /\ \A i \in 1..Len(log) : WellFormedToken(log[i].token)
    /\ \A i \in 1..Len(out.tokens) : WellFormedToken(out.tokens[i])

\* C8 witness: tokens of both paths, one for a negative reading and one for
\* a value past the 48-bit range, the last ones returned by a batch.
TokensWellFormedWitness ==
    /\ \E i \in 1..Len(log) : log[i].fast /\ ~IsInstant(log[i].issued)
    /\ \E i \in 1..Len(log) : ~log[i].fast /\ NumLT(log[i].now, Zero)
    /\ out.fn = "generateBatch"
    /\ Len(out.tokens) = 2

\* C9: decode reports the first failing check, in the order text, length,
\* alphabet, and decodes only what passes the three.
DecodeValidationOrder ==
    \A i \in 2..Len(trail) :
        IsDecodeImage(i) =>
            LET a == trail[i - 1]
                r == trail[i]
            IN  /\ a.type # "string" => r = Throw(ErrNotString, Zero)
                /\ (a.type = "string" /\ Len(a.chars) # 8)
                      => r = Throw(ErrLength, Num(0, Len(a.chars)))
                /\ (/\ a.type = "string"
                    /\ Len(a.chars) = 8
                    /\ \E k \in 1..8 : a.chars[k] \notin Alphabet)
                      => r = Throw(ErrFormat, Zero)
                /\ (a.type = "string" /\ WellFormedToken(a.chars))
                      => r.type = "number"

\* C9 witness: "toolong!!", too long and with symbols outside the alphabet,
\* was rejected for its length.
DecodeValidationOrderWitness ==
    /\ Len(trail) = 2
    /\ trail[1] = JsString(<<116, 111, 111, 108, 111, 110, 103, 33, 33>>)
    /\ trail[2] = Throw(ErrLength, Num(0, 9))

\* C10: a generator call whose clock reading is negative throws instead of
\* returning a token.
NegativeClockThrows ==
    \A i \in 1..Len(log) : ~NumLT(log[i].now, Zero)

(***************************************************************************)
(* C11.  generateBatch throws the count error for every count that is not  *)
(* an integer in 1..10000, and for every integer count in 1..10000 with    *)
(* valid options it returns exactly count tokens; a call without a count   *)
(* is a call with count 1.                                                 *)
(***************************************************************************)
IsCountInRange(c) == c.type = "number" /\ c.whole /\ c.n \in 1..10000

IsOptionsObject(o) == o.type \in {"object", "undefined"}

BatchCountContract ==
    call.fn = "generateBatch" =>
        LET c == call.args[1]
            o == call.args[2]
            n == IF c.type = "undefined" THEN 1 ELSE c.n
        IN  /\ (c.type # "undefined" /\ ~IsCountInRange(c))
                   => out = Threw("generateBatch", ErrCount)
            /\ ((c.type = "undefined" \/ IsCountInRange(c)) /\ IsOptionsObject(o))
                   => /\ out.kind = "return"
                      /\ Len(out.tokens) = n
                      /\ \A i \in {1, n} : WellFormedToken(out.tokens[i])

\* a batch of 10000 and a batch of 1 have been returned in full
BatchCountContractWitness ==
    /\ call.fn = "generateBatch"
    /\ call.args[1] = CountOf(10000)
    /\ out.kind = "return"
    /\ Len(out.tokens) = 10000

(***************************************************************************)
(* C12.  Path equivalence: from the same lastGeneratedTimestamp and the    *)
(* same clock reading the standard and the fast generator return the same  *)
(* token and leave the same lastGeneratedTimestamp, and a batch returns    *)
(* the same tokens whichever path its fast option selects.                 *)
(***************************************************************************)
OtherPath(e) ==
    IF e.fast THEN generateTimestamp48(e.now, e.prev)
              ELSE generateTimestamp48Fast(e.now, e.prev)

PathEquivalence ==
    /\ \A i \in 1..Len(log) :
          /\ log[i].token = OtherPath(log[i]).token
          /\ log[i].issued = OtherPath(log[i]).issued
    /\ (out.fn = "generateBatch" /\ out.kind = "return") =>
          LET n == Len(out.tokens)
              es == SubSeq(log, Len(log) - n + 1, Len(log))
              readings == [i \in 1..n |-> es[i].now]
          IN  out.tokens =
                  TokensOf(BatchLoop(readings, 1, ~es[1].fast, es[1].prev))

\* both paths have run, one of them in a batch, past 2^48 - 1
PathEquivalenceWitness ==
    /\ out.fn = "generateBatch"
    /\ Len(out.tokens) = 2
    /\ Len(log) = 3
    /\ log[3].fast /\ ~log[1].fast
    /\ NumLE(TwoPow48, log[3].issued)

(***************************************************************************)
(* C13.  A token returned by a generator call that read the clock value W, *)
(* 0 <= W < 2^48, decodes to a value of at least W, and its age read at a  *)
(* later clock value W2 >= W is at most W2 - W.                            *)
(***************************************************************************)
IssuedAt(i, encoded) ==
    /\ i \in 1..Len(log)
    /\ encoded = JsString(log[i].token)
    /\ IsInstant(log[i].now)

DecodedNotBeforeReading ==
    /\ call.fn = "decodeTimestamp48" =>
          \A i \in 1..Len(log) :
              IssuedAt(i, call.args[1]) =>
                  /\ call.ret.type = "number"
                  /\ NumLE(log[i].now, call.ret.num)
    /\ call.fn = "getTimestampAge" =>
          \A i \in 1..Len(log) :
              (IssuedAt(i, call.args[1]) /\ NumLE(log[i].now, call.args[2].num)) =>
                  /\ call.ret.type = "number"
                  /\ NumLE(call.ret.num, NumSub(call.args[2].num, log[i].now))

(***************************************************************************)
(* C14.  getTimestampAge read at clock value W returns W minus the decoded *)
(* value for every valid token, a negative number whenever the Instant the *)
(* token encodes is ahead of W, and it throws what decodeTimestamp48       *)
(* throws exactly when decodeTimestamp48 throws.                           *)
(***************************************************************************)
AgeIsReadingMinusDecoded ==
    call.fn = "getTimestampAge" =>
        LET decoded == decodeTimestamp48(call.args[1])
        IN  /\ (decoded.type = "throw") <=> (call.ret.type = "throw")
            /\ decoded.type = "throw" => call.ret = decoded
            /\ decoded.type = "number" =>
                   call.ret = JsNumber(NumSub(call.args[2].num, decoded.num))

AgeOfTokenAheadIsNegative ==
    call.fn = "getTimestampAge" =>
        LET encoded == call.args[1]
        IN  ( /\ encoded.type = "string"
              /\ WellFormedToken(encoded.chars)
              /\ NumLT(call.args[2].num, TokenValue(encoded.chars)) )
               => /\ call.ret.type = "number"
                  /\ NumLT(call.ret.num, Zero)

AgeContract == AgeIsReadingMinusDecoded /\ AgeOfTokenAheadIsNegative

(***************************************************************************)
(* C15.  isValidTimestamp returns a boolean for every input, text or not,  *)
(* of any length, and returns true exactly for the inputs that             *)
(* decodeTimestamp48 decodes: texts of 8 alphabet symbols.                 *)
(***************************************************************************)
ValidExactlyWhenDecodes ==
    call.fn = "isValidTimestamp" =>
        LET timestamp == call.args[1]
        IN  /\ call.ret \in {JsBoolean(TRUE), JsBoolean(FALSE)}
            /\ (call.ret = JsBoolean(TRUE))
                   <=> (decodeTimestamp48(timestamp).type = "number")
            /\ (call.ret = JsBoolean(TRUE))
                   <=> (timestamp.type = "string" /\ WellFormedToken(timestamp.chars))

\* a generated token has been found valid
ValidExactlyWhenDecodesWitness ==
    /\ call.fn = "isValidTimestamp"
    /\ Len(log) = 2
    /\ call.args[1] = JsString(log[2].token)
    /\ call.ret = JsBoolean(TRUE)

(***************************************************************************)
(* C16.  decodeTimestamp48, isValidTimestamp and getTimestampAge leave     *)
(* lastGeneratedTimestamp as it was, whether they return or throw, so      *)
(* every generator call starts from the value the generator call before    *)
(* it issued.                                                              *)
(***************************************************************************)
ReadingFunctions == {"decodeTimestamp48", "isValidTimestamp", "getTimestampAge"}

IssuedChain ==
    \A i \in 1..Len(log) :
        log[i].prev = IF i = 1 THEN Zero ELSE log[i - 1].issued

ReadingFunctionsKeepClock ==
    [][ /\ call'.fn \in ReadingFunctions =>
              /\ lastGeneratedTimestamp' = lastGeneratedTimestamp
              /\ log' = log
        /\ IssuedChain' ]_vars

\* getTimestampAge has thrown after a generator call
ReadingFunctionsKeepClockWitness ==
    /\ call.fn = "getTimestampAge"
    /\ call.ret.type = "throw"
    /\ Len(log) = 1
    /\ lastGeneratedTimestamp = log[1].issued

(***************************************************************************)
(* C17.  As claimed: the first symbol of the token of every Instant in     *)
(* 0 .. 2^48 - 1 has an alphabet index below 16, its two high bits zero.   *)
(***************************************************************************)
EncodedInstant ==
    /\ Len(trail) >= 2
    /\ trail[1].type = "number"
    /\ IsInstant(trail[1].num)
    /\ IsEncodeImage(2)

FirstSymbolBelow16 ==
    EncodedInstant => DECODE_TABLE(trail[2].chars[1]) < 16

(***************************************************************************)
(* C17, amended.  The first symbol of the token of an Instant x has the    *)
(* alphabet index floor(x / 2^42), so all six of its bits carry data, and  *)
(* the index is below 16 exactly when x < 2^46.                            *)
(***************************************************************************)
FirstSymbolIsTopSixBits ==
    EncodedInstant =>
        /\ DECODE_TABLE(trail[2].chars[1]) = trail[1].num.hi \div 262144
        /\ (DECODE_TABLE(trail[2].chars[1]) < 16)
               <=> NumLT(trail[1].num, Num(2^22, 0))

\* 2^48 - 1 has been encoded and its first symbol is "_", index 63
FirstSymbolIsTopSixBitsWitness ==
    /\ EncodedInstant
    /\ trail[1].num = Num(Limb - 1, Limb - 1)
    /\ DECODE_TABLE(trail[2].chars[1]) = 63

(***************************************************************************)
(* C18.  As claimed: the value a generator call issues is at most the      *)
(* clock value the call read.                                              *)
(***************************************************************************)
IssuedAtMostReading ==
    \A i \in 1..Len(log) :
        IsInstant(log[i].now) => NumLE(log[i].issued, log[i].now)

(***************************************************************************)
(* C18, amended.  The value a generator call issues is at least the clock  *)
(* value the call read, and equal to it when the reading is above the      *)
(* value issued before.                                                    *)
(***************************************************************************)
IssuedAtLeastReading ==
    \A i \in 1..Len(log) :
        /\ NumLE(log[i].now, log[i].issued)
        /\ NumLT(log[i].prev, log[i].now) => log[i].issued = log[i].now

\* a call whose reading did not advance issued a value above its reading,
\* after a call that issued its reading
IssuedAtLeastReadingWitness ==
    /\ Len(log) = 2
    /\ log[1].issued = log[1].now
    /\ NumLT(log[2].now, log[2].issued)

(***************************************************************************)
(* C20.  decodeTimestamp48 returns the big-endian value of a valid token:  *)
(* the sum of index(t[i]) * 64^(7 - i) over its eight symbols, a number in *)
(* 0 .. 2^48 - 1, also when the third byte has its top bit set.            *)
(***************************************************************************)
DecodeIsBigEndianValue ==
    ( /\ Len(trail) >= 2
      /\ trail[1].type = "string"
      /\ WellFormedToken(trail[1].chars)
      /\ IsDecodeImage(2) )
       => /\ trail[2] = JsNumber(TokenValue(trail[1].chars))
          /\ IsInstant(trail[2].num)

(***************************************************************************)
(* C19.  generateTimestamp48 is safe to share between callers and          *)
(* collision-resistant within the same millisecond: in whatever order the  *)
(* callers' calls are run, no two callers receive the same token, and      *)
(* lastGeneratedTimestamp never falls below a value already written.       *)
(***************************************************************************)
ThreadSafe ==
    /\ \A c \in Callers : \A d \in Callers :
          (c # d /\ threads[c].pc = "done" /\ threads[d].pc = "done")
              => threads[c].token # threads[d].token
    /\ \A c \in Callers :
          threads[c].pc = "done" => NumLE(threads[c].now, lastGeneratedTimestamp)

\* all callers have called within the same millisecond, caller 3 first
ThreadSafeWitness ==
    /\ \A c \in Callers : threads[c].pc = "done"
    /\ Len(log) = 3
    /\ log[1].now = log[2].now /\ log[2].now = log[3].now
    /\ log[1].token = threads[3].token
    /\ threads[1].token # threads[2].token

(***************************************************************************)
(* C21.  For every valid token the optimized decodeTimestamp48 of          *)
(* part_001 returns what the original decodeTimestamp48 of part_000        *)
(* returns.                                                                *)
(***************************************************************************)
OptimizedDecoderAgrees ==
    ( /\ IsDecodeImage(2)
      /\ trail[1].type = "string"
      /\ WellFormedToken(trail[1].chars) )
       => trail[2] = OriginalDecodeTimestamp48(trail[1])

(***************************************************************************)
(* C22.  The encode step of both generators maps an Instant x to the token *)
(* whose i-th symbol, i = 0..7, is the alphabet symbol of index            *)
(* (x div 64^(7-i)) mod 64; 0 encodes to "AAAAAAAA", 2^48 - 1 to           *)
(* "________", and "AAAAAAAA" decodes to 0.                                *)
(***************************************************************************)
AllA == <<65, 65, 65, 65, 65, 65, 65, 65>>

AllUnderscore == <<95, 95, 95, 95, 95, 95, 95, 95>>

EncodeIsBase64Digits ==
    /\ EncodedInstant =>
          /\ trail[2] = JsString(TokenText(trail[1].num))
          /\ trail[1].num = Zero => trail[2].chars = AllA
          /\ trail[1].num = Num(Limb - 1, Limb - 1) => trail[2].chars = AllUnderscore
    /\ (IsDecodeImage(2) /\ trail[1] = JsString(AllA)) => trail[2] = JsNumber(Zero)

\* 0 has been encoded to "AAAAAAAA" and that decoded again
EncodeIsBase64DigitsWitness ==
    /\ Len(trail) = 3
    /\ trail[1] = JsNumber(Zero)
    /\ trail[2] = JsString(AllA)
    /\ trail[3] = JsNumber(Zero)

(***************************************************************************)
(* C23.  A generateBatch call that returns is count generator calls in     *)
(* sequence: its tokens are the tokens of those calls in issue order, the  *)
(* values issued increase strictly and are above every value issued        *)
(* before the batch, and lastGeneratedTimestamp is left at the value       *)
(* issued for the last token.                                              *)
(***************************************************************************)
BatchReturned == out.fn = "generateBatch" /\ out.kind = "return"

SingleCall(e, last) ==
    IF e.fast THEN generateTimestamp48Fast(e.now, last)
              ELSE generateTimestamp48(e.now, last)

BatchIsSequentialCalls ==
    BatchReturned =>
        LET n == Len(out.tokens)
            first == Len(log) - n + 1
            before == IF first = 1 THEN Zero ELSE log[first - 1].issued
        IN  /\ n >= 1 /\ first >= 1
            /\ \A i \in first..Len(log) :
                  /\ out.tokens[i - first + 1] = log[i].token
                  /\ log[i] = SingleCall(log[i], IF i = first THEN before
                                                  ELSE log[i - 1].issued)
                  /\ \A j \in 1..(i - 1) : NumLT(log[j].issued, log[i].issued)
                  /\ IsInstant(log[i].issued)
                        => TokenValue(log[i].token) = log[i].issued
            /\ lastGeneratedTimestamp = log[Len(log)].issued

\* a batch of two on a clock that stood still, after a single call
BatchIsSequentialCallsWitness ==
    /\ BatchReturned
    /\ Len(out.tokens) = 2
    /\ Len(log) = 3
    /\ log[3].now = log[2].now
    /\ NumLE(log[2].now, log[1].issued)

(***************************************************************************)
(* C24.  A generateBatch call whose count is not an integer in 1..10000,   *)
(* or whose options are null or not an object, throws without generating   *)
(* a token and leaves lastGeneratedTimestamp as it was; the count is       *)
(* checked first, so with both invalid the count error is thrown.          *)
(***************************************************************************)
BatchFailureKeepsClock ==
    [][ call'.fn = "generateBatch" =>
          LET countBad == call'.args[1].type # "undefined"
                            /\ ~IsCountInRange(call'.args[1])
              optionsBad == ~IsOptionsObject(call'.args[2])
          IN  /\ (countBad \/ optionsBad) =>
                    /\ out'.kind = "throw"
                    /\ out'.tokens = <<>>
                    /\ log' = log
                    /\ lastGeneratedTimestamp' = lastGeneratedTimestamp
              /\ countBad => out'.err = ErrCount
              /\ (~countBad /\ optionsBad) => out'.err = ErrOptions ]_vars

\* after one generator call, a batch with count 0 and null options has
\* thrown the count error
BatchFailureKeepsClockWitness ==
    /\ call.fn = "generateBatch"
    /\ call.args = <<CountOf(0), OptionsNull>>
    /\ out = Threw("generateBatch", ErrCount)
    /\ Len(log) = 1
    /\ lastGeneratedTimestamp = log[1].issued

(***************************************************************************)
(* C25.  A generator call that throws because the clock is missing or its  *)
(* reading is invalid leaves lastGeneratedTimestamp as it was, so the      *)
(* values issued by the calls that return still increase strictly across   *)
(* the failure.                                                            *)
(***************************************************************************)
Generators == {"generateTimestamp48", "generateTimestamp48Fast"}

IssuedIncreaseAcrossFailures ==
    \A i, j \in 1..Len(log) :
        (i < j /\ log[i].issued # NotANumber /\ log[j].issued # NotANumber)
            => NumLT(log[i].issued, log[j].issued)

FailedCallKeepsClock ==
    [][ /\ (out'.fn \in Generators /\ out'.kind = "throw")
              => lastGeneratedTimestamp' = lastGeneratedTimestamp
        /\ IssuedIncreaseAcrossFailures' ]_vars

(***************************************************************************)
(* C26.  No overflow guard: when the clock step chooses a value v of 2^48  *)
(* or more, both generators return the encoding of v mod 2^48 and leave    *)
(* lastGeneratedTimestamp at v itself, so a token can equal or sort below  *)
(* an earlier one.                                                         *)
(***************************************************************************)
OverflowWrapsToken ==
    /\ \A i \in 1..Len(log) :
          /\ NumLE(TwoPow48, log[i].now) => NumLE(log[i].now, log[i].issued)
          /\ NumLE(TwoPow48, log[i].issued) =>
                log[i].token = TokenText(Mod48(log[i].issued))
    /\ Len(log) > 0 => lastGeneratedTimestamp = log[Len(log)].issued
    /\ out.kind = "return" =>
          out.tokens[Len(out.tokens)] = log[Len(log)].token

\* the fast generator at 2^48 + 51 returned the token the standard one
\* returned at 51, and after 2^48 - 1 a token that sorts below
OverflowWrapsTokenWitness ==
    /\ Len(log) = 3
    /\ ~log[1].fast /\ log[1].issued = Num(0, 51)
    /\ log[2].issued = Num(Limb - 1, Limb - 1)
    /\ log[3].fast /\ log[3].issued = Num(Limb, 51)
    /\ log[3].token = log[1].token
    /\ LexLess(log[3].token, log[2].token, TRUE)

(***************************************************************************)
(* C27.  No generator call issues 0: once a call has returned,             *)
(* lastGeneratedTimestamp is at least 1, and no call whose issued value is *)
(* below 2^48 returns "AAAAAAAA".                                          *)
(***************************************************************************)
NeverIssuesZero ==
    Len(log) >= 1 =>
        /\ NumLE(Num(0, 1), lastGeneratedTimestamp)
        /\ \A i \in 1..Len(log) :
              /\ NumLE(Num(0, 1), log[i].issued)
              /\ IsInstant(log[i].issued) => log[i].token # AllA

\* the first call read 0 and issued 1, "AAAAAAAB"
NeverIssuesZeroWitness ==
    /\ Len(log) = 1
    /\ log[1].now = Zero
    /\ log[1].issued = Num(0, 1)
    /\ out.tokens = << <<65, 65, 65, 65, 65, 65, 65, 66>> >>

(***************************************************************************)
(* C28.  Bounded drift: after n generator calls whose largest clock        *)
(* reading is M, lastGeneratedTimestamp is at most max(0, M) + n.          *)
(***************************************************************************)
RECURSIVE MaxReading(_)
MaxReading(n) ==
    IF n = 0 THEN Zero
    ELSE IF NumLT(MaxReading(n - 1), log[n].now) THEN log[n].now
    ELSE MaxReading(n - 1)

BoundedDrift ==
    \A n \in 1..Len(log) :
        NumLE(log[n].issued, NumPlus(MaxReading(n), n))

\* three calls on a clock at or below 0 have issued 1, 2, 3: the bound is met
BoundedDriftWitness ==
    /\ Len(log) = 3
    /\ MaxReading(3) = Zero
    /\ lastGeneratedTimestamp = Num(0, 3)

(***************************************************************************)
(* C29.  Index-order sortability: for Instants x < y the token of x        *)
(* precedes the token of y when the tokens are compared symbol by symbol   *)
(* by alphabet position.                                                   *)
(***************************************************************************)
IndexOrderSortable ==
    EncodedInstant =>
        \A y \in CodecInstants :
            /\ NumLT(trail[1].num, y)
                  => /\ LexLess(trail[2].chars, Encode48(y), TRUE)
                     /\ LexLess(trail[2].chars, Encode48Fast(y), TRUE)
            /\ NumLT(y, trail[1].num)
                  => /\ LexLess(Encode48(y), trail[2].chars, TRUE)
                     /\ LexLess(Encode48Fast(y), trail[2].chars, TRUE)

\* 51 has been encoded: its token precedes the token of 52 by alphabet
\* position and follows it by character code
IndexOrderSortableWitness ==
    /\ EncodedInstant
    /\ trail[1].num = Num(0, 51)
    /\ LexLess(trail[2].chars, Encode48(Num(0, 52)), TRUE)
    /\ LexLess(Encode48(Num(0, 52)), trail[2].chars, FALSE)

====
